---------------------------- MODULE Spec2Model ----------------------------
(***************************************************************************)
(* Freya: the sequential Model container (freya/model/__init__.py).        *)
(* The Model holds an ordered list of layers and a loss history; predict   *)
(* runs a forward pass, train runs epochs of forward pass, loss dispatch,  *)
(* loss evaluation and a fused backward+optimize pass in reverse order.    *)
(* Every layer call (forward, backward, optimize) is one step, so the      *)
(* order of the calls is visible in the behaviours.                        *)
(***************************************************************************)
EXTENDS Integers, Sequences, FiniteSets, TLC

(***************************************************************************)
(* Bounds of the model.                                                    *)
(***************************************************************************)
\* arrays are abstracted to one number modulo ValMod
ValMod == 3
\* largest number of layers a model is given
MaxLayers == 3
\* largest epoch count passed to train in the short specifications
MaxEpochs == 2
\* number of predict and train calls made on one model
MaxCalls == 2
\* the long training run of the verbosity specification
LongEpochs == 150

\* print interval of train (epoch % 50 == 0)
ReportEvery == 50

Vals == 0..(ValMod - 1)
XVals == {1, 2}
YVals == {1}
LearningRates == {1}
LossSelectors == {"BinaryCrossEntropy", "MeanSquaredError", "Hinge"}

(***************************************************************************)
(* Optional values: a Python local that may be unbound is a sequence of    *)
(* length 0 (unbound) or 1 (bound to its element).                         *)
(***************************************************************************)
Unbound == << >>
Bound(v) == << v >>
IsBound(o) == Len(o) = 1
ValueOf(o) == o[1]

(***************************************************************************)
(* The layers (freya.layers) and losses (freya.loss) the Model consumes.   *)
(* A layer is [type, w, b, cache, id]: w and b are the learnable           *)
(* parameters of a parametric layer, cache is the input its last forward   *)
(* call kept, id is the identity of the object (0 until the caller has     *)
(* constructed it).                                                        *)
(***************************************************************************)
Linear(w, b) == [type |-> "Linear", w |-> w, b |-> b, cache |-> Unbound, id |-> 0]
ReLU == [type |-> "ReLU", w |-> 0, b |-> 0, cache |-> Unbound, id |-> 0]

\* the object the caller constructs as its n-th layer
Constructed(layer, n) == [layer EXCEPT !.id = n]

\* the layers a caller constructs and adds
NewLayers == {Linear(2, 0), ReLU}

\* values in the upper half of the residues stand for negative numbers
Positive(x) == x > 0 /\ 2 * x <= ValMod

\* layer.forward(input_val): the output
LayerForward(l, x) ==
    IF l.type = "Linear" THEN (l.w * x + l.b) % ValMod
    ELSE IF Positive(x) THEN x ELSE 0

\* layer.forward(input_val): the layer afterwards (it caches its input)
LayerAfterForward(l, x) == [l EXCEPT !.cache = Bound(x)]

\* layer.backward(gradient): a triple for a parametric layer, else one value
LayerBackward(l, g) ==
    LET c == IF IsBound(l.cache) THEN ValueOf(l.cache) ELSE 0
    IN  IF l.type = "Linear"
        THEN << (g * l.w) % ValMod, (g * c) % ValMod, g >>
        ELSE << IF Positive(c) THEN g ELSE 0 >>

\* layer.optimize(dW, dB, learning_rate): the layer afterwards
LayerOptimize(l, dW, dB, lr) ==
    [l EXCEPT !.w = (l.w + lr * (ValMod - dW)) % ValMod,
              !.b = (l.b + lr * (ValMod - dB)) % ValMod]

\* BinaryCrossEntropy(forward, Y) / MeanSquaredError(forward, Y)
LossUnit(kind, predicted, target) ==
    [kind |-> kind, predicted |-> predicted, target |-> target]

\* loss_f.forward(): the scalar error
LossForward(lf) ==
    LET d == (lf.predicted + ValMod - lf.target) % ValMod
    IN  IF lf.kind = "MeanSquaredError" THEN (d * d) % ValMod
        ELSE IF d = 0 THEN 0 ELSE 1

\* loss_f.backward(): the first gradient
LossBackward(lf) ==
    LET d == (lf.predicted + ValMod - lf.target) % ValMod
    IN  IF lf.kind = "MeanSquaredError" THEN (2 * d) % ValMod ELSE d

(***************************************************************************)
(* State.                                                                  *)
(***************************************************************************)
VARIABLES
    layers,     \* self.layers
    loss,       \* self.loss, the loss history
    pc,         \* position of the caller's thread inside the Model's code
    args,       \* arguments of the call in progress
    epoch,      \* train's loop variable
    loc,        \* locals of predict / _run_epoch
    result,     \* how the last public call ended
    out,        \* lines printed by train
    calls,      \* layer calls of the current predict / epoch, in order
    hist        \* history variables (snapshots and counters)

vars == << layers, loss, pc, args, epoch, loc, result, out, calls, hist >>

NoArgs ==
    [X |-> 0, Y |-> 0, learning_rate |-> 0, epochs |-> 0,
     loss_function |-> "", verbose |-> FALSE]

NoLocals ==
    [X |-> 0, i |-> 0, forward |-> Unbound, loss_f |-> Unbound,
     error |-> Unbound, gradient |-> Unbound, dW |-> Unbound, dB |-> Unbound]

NoResult == [op |-> "", kind |-> "", exc |-> "", val |-> Unbound]

Returned(op, v) == [op |-> op, kind |-> "return", exc |-> "", val |-> v]
Raised(op, e) == [op |-> op, kind |-> "raise", exc |-> e, val |-> Unbound]

Call(op, i, a) == [op |-> op, layer |-> i, arg |-> a]

\* the learnable part of the layer sequence: kinds and parameters
Params(ls) == [k \in 1..Len(ls) |-> << ls[k].type, ls[k].w, ls[k].b >>]

NoHist ==
    [layers0 |-> << >>,     \* layers when the call in progress started
     loss0 |-> << >>,       \* loss history when the call in progress started
     epoch0 |-> << >>,      \* layers when the epoch in progress started
     completed |-> 0,       \* epochs that ran to completion, over all calls
     completed0 |-> 0,      \* the same, when the call in progress started
     fwd |-> 0, bwd |-> 0, opt |-> 0,  \* layer calls of the call in progress
     trains |-> 0, predicts |-> 0,     \* public calls made so far
     added |-> << >>]       \* layers passed to add, in call order

\* Model.__init__
Init ==
    /\ layers = << >>
    /\ loss = << >>
    /\ pc = "idle"
    /\ args = NoArgs
    /\ epoch = 0
    /\ loc = NoLocals
    /\ result = NoResult
    /\ out = << >>
    /\ calls = << >>
    /\ hist = NoHist

(***************************************************************************)
(* Model.add                                                               *)
(***************************************************************************)
\* a public call starts: the history variables take their snapshots
CallStarts(h) ==
    [h EXCEPT !.layers0 = layers, !.loss0 = loss, !.epoch0 = layers,
              !.completed0 = h.completed, !.fwd = 0, !.bwd = 0, !.opt = 0]

\* variant: the layer is put in front (self.layers.insert(0, layer))
addFront(layer) ==
    /\ pc = "idle"
    /\ Len(layers) < MaxLayers
    /\ layers' = << layer >> \o layers
    /\ args' = NoArgs
    /\ calls' = << >>
    /\ out' = << >>
    /\ result' = Returned("add", Unbound)
    /\ hist' = [CallStarts(hist) EXCEPT !.added = Append(@, layer)]
    /\ UNCHANGED << loss, pc, epoch, loc >>

\* call of add(layer): self.layers.append(layer)
add(layer) ==
    /\ pc = "idle"
    /\ Len(layers) < MaxLayers
    /\ layers' = Append(layers, layer)
    /\ args' = NoArgs
    /\ calls' = << >>
    /\ out' = << >>
    /\ result' = Returned("add", Unbound)
    /\ hist' = [CallStarts(hist) EXCEPT !.added = Append(@, layer)]
    /\ UNCHANGED << loss, pc, epoch, loc >>

Add == \E layer \in NewLayers : add(Constructed(layer, Len(hist.added) + 1))

(***************************************************************************)
(* Model.predict                                                           *)
(***************************************************************************)
\* variant: the loop forgets X = forward, every layer is fed the original X
ThreadInputStale(X, forward) == X

\* X = forward (line 58 and line 123): the output feeds the next layer
ThreadInput(X, forward) == forward

\* variant: predict also starts a fresh loss history (self.loss = [])
predictResets(X) ==
    /\ pc = "idle"
    /\ hist.trains + hist.predicts < MaxCalls
    /\ pc' = "predict"
    /\ args' = [NoArgs EXCEPT !.X = X]
    /\ loc' = [NoLocals EXCEPT !.X = X, !.i = 1]
    /\ calls' = << >>
    /\ out' = << >>
    /\ result' = NoResult
    /\ loss' = << >>
    /\ hist' = [CallStarts(hist) EXCEPT !.predicts = @ + 1]
    /\ UNCHANGED << layers, epoch >>

\* call of predict(X)
predict(X) ==
    /\ pc = "idle"
    /\ hist.trains + hist.predicts < MaxCalls
    /\ pc' = "predict"
    /\ args' = [NoArgs EXCEPT !.X = X]
    /\ loc' = [NoLocals EXCEPT !.X = X, !.i = 1]
    /\ calls' = << >>
    /\ out' = << >>
    /\ result' = NoResult
    /\ hist' = [CallStarts(hist) EXCEPT !.predicts = @ + 1]
    /\ UNCHANGED << layers, loss, epoch >>

PredictCall == \E X \in XVals : predict(X)

\* one iteration of predict's loop: forward = self.layers[i].forward(X); X = forward
PredictForward ==
    /\ pc = "predict"
    /\ loc.i <= Len(layers)
    /\ LET f == LayerForward(layers[loc.i], loc.X)
       IN  /\ layers' = [layers EXCEPT ![loc.i] = LayerAfterForward(@, loc.X)]
           /\ calls' = Append(calls, Call("forward", loc.i, loc.X))
           /\ loc' = [loc EXCEPT !.forward = Bound(f),
                                 !.X = ThreadInput(loc.X, f),
                                 !.i = @ + 1]
    /\ hist' = [hist EXCEPT !.fwd = @ + 1]
    /\ UNCHANGED << loss, pc, args, epoch, result, out >>

\* variant: with no layer, predict hands back its input (forward = X before the loop)
PredictReturnIdentity ==
    /\ pc = "predict"
    /\ loc.i > Len(layers)
    /\ result' = IF IsBound(loc.forward)
                 THEN Returned("predict", loc.forward)
                 ELSE Returned("predict", Bound(loc.X))
    /\ pc' = "idle"
    /\ loc' = NoLocals
    /\ UNCHANGED << layers, loss, args, epoch, out, calls, hist >>

\* return forward: an unbound local raises UnboundLocalError
PredictReturn ==
    /\ pc = "predict"
    /\ loc.i > Len(layers)
    /\ result' = IF IsBound(loc.forward)
                 THEN Returned("predict", loc.forward)
                 ELSE Raised("predict", "UnboundLocalError")
    /\ pc' = "idle"
    /\ loc' = NoLocals
    /\ UNCHANGED << layers, loss, args, epoch, out, calls, hist >>

(***************************************************************************)
(* Model.train                                                             *)
(***************************************************************************)
\* call of train(X_train, Y_train, learning_rate, epochs, loss_function, verbose)
train(X_train, Y_train, learning_rate, epochs, loss_function, verbose) ==
    /\ pc = "idle"
    /\ hist.trains + hist.predicts < MaxCalls
    /\ pc' = "train"
    /\ args' = [X |-> X_train, Y |-> Y_train, learning_rate |-> learning_rate,
                epochs |-> epochs, loss_function |-> loss_function,
                verbose |-> verbose]
    /\ epoch' = 0
    /\ loc' = NoLocals
    /\ calls' = << >>
    /\ out' = << >>
    /\ result' = NoResult
    /\ hist' = [CallStarts(hist) EXCEPT !.trains = @ + 1]
    /\ UNCHANGED << layers, loss >>

TrainCall ==
    \E X \in XVals, Y \in YVals, lr \in LearningRates, n \in 0..MaxEpochs,
       sel \in LossSelectors, verbose \in {FALSE} :
        train(X, Y, lr, n, sel, verbose)

\* variant: the loop runs one time too many (range(epochs + 1))
EpochStartInclusive ==
    /\ pc = "train"
    /\ epoch <= args.epochs
    /\ pc' = "forward"
    /\ loc' = [NoLocals EXCEPT !.X = args.X, !.i = 1]
    /\ calls' = << >>
    /\ hist' = [hist EXCEPT !.epoch0 = layers]
    /\ UNCHANGED << layers, loss, args, epoch, result, out >>

\* for epoch in range(epochs): one more iteration, entering _run_epoch
EpochStart ==
    /\ pc = "train"
    /\ epoch < args.epochs
    /\ pc' = "forward"
    /\ loc' = [NoLocals EXCEPT !.X = args.X, !.i = 1]
    /\ calls' = << >>
    /\ hist' = [hist EXCEPT !.epoch0 = layers]
    /\ UNCHANGED << layers, loss, args, epoch, result, out >>

\* range(epochs) is exhausted: train returns None
TrainReturn ==
    /\ pc = "train"
    /\ epoch >= args.epochs
    /\ pc' = "idle"
    /\ result' = Returned("train", Unbound)
    /\ loc' = NoLocals
    /\ UNCHANGED << layers, loss, args, epoch, out, calls, hist >>

(***************************************************************************)
(* Model._run_epoch                                                        *)
(***************************************************************************)
\* one iteration of the forward loop (lines 121-123)
EpochForward ==
    /\ pc = "forward"
    /\ loc.i <= Len(layers)
    /\ LET f == LayerForward(layers[loc.i], loc.X)
       IN  /\ layers' = [layers EXCEPT ![loc.i] = LayerAfterForward(@, loc.X)]
           /\ calls' = Append(calls, Call("forward", loc.i, loc.X))
           /\ loc' = [loc EXCEPT !.forward = Bound(f),
                                 !.X = ThreadInput(loc.X, f),
                                 !.i = @ + 1]
    /\ hist' = [hist EXCEPT !.fwd = @ + 1]
    /\ UNCHANGED << loss, pc, args, epoch, result, out >>

\* variant: the chain ends in a default loss instead of raising
SupportedAny(loss_function) == TRUE

\* the if / elif chain on loss_function (lines 126-131)
Supported(loss_function) ==
    loss_function \in {"BinaryCrossEntropy", "MeanSquaredError"}

\* variant: the dispatch sits inside the forward loop's body, so it runs
\* once the first layer has been applied
LossDispatchInLoop ==
    /\ pc = "forward"
    /\ loc.i > 1 \/ Len(layers) = 0
    /\ IF Supported(args.loss_function)
       THEN IF IsBound(loc.forward)
            THEN /\ loc' = [loc EXCEPT !.loss_f =
                              Bound(LossUnit(args.loss_function,
                                             ValueOf(loc.forward), args.Y))]
                 /\ pc' = "loss"
                 /\ UNCHANGED result
            ELSE /\ result' = Raised("train", "UnboundLocalError")
                 /\ pc' = "idle"
                 /\ loc' = NoLocals
       ELSE /\ result' = Raised("train", "ValueError")
            /\ pc' = "idle"
            /\ loc' = NoLocals
    /\ UNCHANGED << layers, loss, args, epoch, out, calls, hist >>

\* loss dispatch, reached when the forward loop is over (lines 126-131)
LossDispatch ==
    /\ pc = "forward"
    /\ loc.i > Len(layers)
    /\ IF Supported(args.loss_function)
       THEN IF IsBound(loc.forward)
            THEN /\ loc' = [loc EXCEPT !.loss_f =
                              Bound(LossUnit(args.loss_function,
                                             ValueOf(loc.forward), args.Y))]
                 /\ pc' = "loss"
                 /\ UNCHANGED result
            ELSE \* no layer ran: forward was never bound
                 /\ result' = Raised("train", "UnboundLocalError")
                 /\ pc' = "idle"
                 /\ loc' = NoLocals
       ELSE /\ result' = Raised("train", "ValueError")
            /\ pc' = "idle"
            /\ loc' = NoLocals
    /\ UNCHANGED << layers, loss, args, epoch, out, calls, hist >>

\* variant: the loop is not reversed at its start
BackwardFirstUnreversed(n) == IF n >= 1 THEN 1 ELSE 0

\* index of the layer the backward loop starts with (line 139)
BackwardFirst(n) == n

\* variant: the reversed loop steps over every other layer
BackwardNextSkips(i) == i - 2

\* index of the layer the backward loop goes to after layer i (line 139)
BackwardNext(i) == i - 1

\* variant: the history keeps the latest error only (self.loss = [error])
RecordLossOnly(history, error) == << error >>

\* self.loss.append(error) (line 136)
RecordLoss(history, error) == Append(history, error)

\* error = loss_f.forward(); gradient = loss_f.backward(); self.loss.append(error)
LossEval ==
    /\ pc = "loss"
    /\ LET lf == ValueOf(loc.loss_f)
       IN  /\ loc' = [loc EXCEPT !.error = Bound(LossForward(lf)),
                                 !.gradient = Bound(LossBackward(lf)),
                                 !.i = BackwardFirst(Len(layers))]
           /\ loss' = RecordLoss(loss, LossForward(lf))
    /\ pc' = "backward"
    /\ UNCHANGED << layers, args, epoch, result, out, calls, hist >>

\* variant: no layer is taken to be the parametric kind (type != 'linear')
IsParametricNever(l) == FALSE

\* the test of line 140, read as "the layer is parametric"
IsParametric(l) == l.type = "Linear"

\* variant: the triple is unpacked in another order (dW, gradient, dB = ...)
EpochBackwardSwapped ==
    /\ pc = "backward"
    /\ loc.i >= 1
    /\ LET g == ValueOf(loc.gradient)
           r == LayerBackward(layers[loc.i], g)
       IN  /\ calls' = Append(calls, Call("backward", loc.i, g))
           /\ IF ~IsParametric(layers[loc.i])
              THEN /\ loc' = [loc EXCEPT !.gradient = Bound(r[1]),
                                         !.i = BackwardNext(@)]
                   /\ pc' = "backward"
              ELSE /\ loc' = [loc EXCEPT !.gradient = Bound(r[2]),
                                         !.dW = Bound(r[1]),
                                         !.dB = Bound(r[3])]
                   /\ pc' = "optimize"
    /\ hist' = [hist EXCEPT !.bwd = @ + 1]
    /\ UNCHANGED << layers, loss, args, epoch, result, out >>

\* one backward call of the backpropagation loop (lines 140-143)
EpochBackward ==
    /\ pc = "backward"
    /\ loc.i >= 1
    /\ LET g == ValueOf(loc.gradient)
           r == LayerBackward(layers[loc.i], g)
       IN  /\ calls' = Append(calls, Call("backward", loc.i, g))
           /\ IF ~IsParametric(layers[loc.i])
              THEN /\ loc' = [loc EXCEPT !.gradient = Bound(r[1]),
                                         !.i = BackwardNext(@)]
                   /\ pc' = "backward"
              ELSE /\ loc' = [loc EXCEPT !.gradient = Bound(r[1]),
                                         !.dW = Bound(r[2]),
                                         !.dB = Bound(r[3])]
                   /\ pc' = "optimize"
    /\ hist' = [hist EXCEPT !.bwd = @ + 1]
    /\ UNCHANGED << layers, loss, args, epoch, result, out >>

\* variant: the step size grows with the epoch index
EpochOptimizeScaled ==
    /\ pc = "optimize"
    /\ layers' = [layers EXCEPT ![loc.i] =
                    LayerOptimize(@, ValueOf(loc.dW), ValueOf(loc.dB),
                                  args.learning_rate + epoch)]
    /\ calls' = Append(calls, Call("optimize", loc.i,
                                   << ValueOf(loc.dW), ValueOf(loc.dB),
                                      args.learning_rate + epoch >>))
    /\ loc' = [loc EXCEPT !.i = BackwardNext(@)]
    /\ pc' = "backward"
    /\ hist' = [hist EXCEPT !.opt = @ + 1]
    /\ UNCHANGED << loss, args, epoch, result, out >>

\* self.layers[i].optimize(dW, dB, learning_rate) (line 144)
EpochOptimize ==
    /\ pc = "optimize"
    /\ layers' = [layers EXCEPT ![loc.i] =
                    LayerOptimize(@, ValueOf(loc.dW), ValueOf(loc.dB),
                                  args.learning_rate)]
    /\ calls' = Append(calls, Call("optimize", loc.i,
                                   << ValueOf(loc.dW), ValueOf(loc.dB),
                                      args.learning_rate >>))
    /\ loc' = [loc EXCEPT !.i = BackwardNext(@)]
    /\ pc' = "backward"
    /\ hist' = [hist EXCEPT !.opt = @ + 1]
    /\ UNCHANGED << loss, args, epoch, result, out >>

\* variant: the report counts epochs from one ((epoch + 1) % 50 == 0)
ReportDueFromOne(verbose, e) == verbose /\ (e + 1) % ReportEvery = 0

\* if verbose: if epoch % 50 == 0 (lines 92-93)
ReportDue(verbose, e) == verbose /\ e % ReportEvery = 0

\* return error (line 146), then the rest of train's loop body (lines 90-94)
EpochReturn ==
    /\ pc = "backward"
    /\ loc.i < 1
    /\ out' = IF ReportDue(args.verbose, epoch)
              THEN Append(out, [epoch |-> epoch, loss |-> ValueOf(loc.error)])
              ELSE out
    /\ epoch' = epoch + 1
    /\ pc' = "train"
    /\ loc' = NoLocals
    /\ hist' = [hist EXCEPT !.completed = @ + 1]
    /\ UNCHANGED << layers, loss, args, result, calls >>

(***************************************************************************)
(* Specifications.                                                         *)
(***************************************************************************)
Next ==
    \/ Add
    \/ PredictCall
    \/ PredictForward
    \/ PredictReturn
    \/ TrainCall
    \/ EpochStart
    \/ EpochForward
    \/ LossDispatch
    \/ LossEval
    \/ EpochBackward
    \/ EpochOptimize
    \/ EpochReturn
    \/ TrainReturn

Spec == Init /\ [][Next]_vars

\* the steps the caller's thread takes inside predict and train
Step ==
    \/ PredictForward
    \/ PredictReturn
    \/ EpochStart
    \/ EpochForward
    \/ LossDispatch
    \/ LossEval
    \/ EpochBackward
    \/ EpochOptimize
    \/ EpochReturn
    \/ TrainReturn

\* the first train call made on a model
TrainCallOnce == hist.trains = 0 /\ TrainCall

NextLive ==
    \/ Add
    \/ PredictCall
    \/ TrainCallOnce
    \/ Step

\* the behaviours with at most one train call per model, among add and
\* predict calls: the epochs of a train call, step by step
SpecEpoch == Init /\ [][NextLive]_vars

\* execution is single-threaded and synchronous: a call that has started
\* keeps executing its next statement
SpecLive == SpecEpoch /\ WF_vars(Step)

(***************************************************************************)
(* A layer call that raises (a shape mismatch inside the layer's array     *)
(* arithmetic): the exception leaves predict / _run_epoch / train at once. *)
(***************************************************************************)
CallOp == IF pc = "predict" THEN "predict" ELSE "train"

ForwardRaises ==
    /\ pc \in {"predict", "forward"}
    /\ loc.i <= Len(layers)
    /\ calls' = Append(calls, Call("forward", loc.i, loc.X))
    /\ hist' = [hist EXCEPT !.fwd = @ + 1]
    /\ result' = Raised(CallOp, "LayerError")
    /\ pc' = "idle"
    /\ loc' = NoLocals
    /\ UNCHANGED << layers, loss, args, epoch, out >>

BackwardRaises ==
    /\ pc = "backward"
    /\ loc.i >= 1
    /\ calls' = Append(calls, Call("backward", loc.i, ValueOf(loc.gradient)))
    /\ hist' = [hist EXCEPT !.bwd = @ + 1]
    /\ result' = Raised("train", "LayerError")
    /\ pc' = "idle"
    /\ loc' = NoLocals
    /\ UNCHANGED << layers, loss, args, epoch, out >>

OptimizeRaises ==
    /\ pc = "optimize"
    /\ calls' = Append(calls, Call("optimize", loc.i,
                                   << ValueOf(loc.dW), ValueOf(loc.dB),
                                      args.learning_rate >>))
    /\ hist' = [hist EXCEPT !.opt = @ + 1]
    /\ result' = Raised("train", "LayerError")
    /\ pc' = "idle"
    /\ loc' = NoLocals
    /\ UNCHANGED << layers, loss, args, epoch, out >>

NextFault ==
    \/ Next
    \/ ForwardRaises
    \/ BackwardRaises
    \/ OptimizeRaises

\* the Model with layers whose calls may raise
SpecFault == Init /\ [][NextFault]_vars

NextInterrupt ==
    \/ NextLive
    \/ ForwardRaises
    \/ BackwardRaises
    \/ OptimizeRaises

\* the same, for behaviours with at most one train call per model
SpecInterrupt == Init /\ [][NextInterrupt]_vars

(***************************************************************************)
(* One long training run of a freshly built [Linear, ReLU, Linear] model,  *)
(* with and without verbose.                                               *)
(***************************************************************************)
LongModel ==
    << Constructed(Linear(2, 0), 1), Constructed(ReLU, 2),
       Constructed(Linear(2, 0), 3) >>

LongEpochSet == {LongEpochs - 2 * ReportEvery, LongEpochs - 2 * ReportEvery + 1, LongEpochs}

InitLong ==
    /\ layers = LongModel
    /\ loss = << >>
    /\ pc = "idle"
    /\ args = NoArgs
    /\ epoch = 0
    /\ loc = NoLocals
    /\ result = Returned("add", Unbound)
    /\ out = << >>
    /\ calls = << >>
    /\ hist = [NoHist EXCEPT !.added = LongModel,
                             !.layers0 = SubSeq(LongModel, 1, Len(LongModel) - 1),
                             !.epoch0 = SubSeq(LongModel, 1, Len(LongModel) - 1)]

TrainCallLong ==
    \E X \in XVals, Y \in YVals, lr \in LearningRates, n \in LongEpochSet,
       sel \in LossSelectors, verbose \in BOOLEAN :
        /\ hist.trains = 0
        /\ train(X, Y, lr, n, sel, verbose)

NextLong ==
    \/ TrainCallLong
    \/ EpochStart
    \/ EpochForward
    \/ LossDispatch
    \/ LossEval
    \/ EpochBackward
    \/ EpochOptimize
    \/ EpochReturn
    \/ TrainReturn

SpecLong == InitLong /\ [][NextLong]_vars

(***************************************************************************)
(* Properties.                                                             *)
(***************************************************************************)
\* Lk.forward(...L1.forward(x)): the composition of the first k layers
RECURSIVE Compose(_, _, _)
Compose(ls, k, x) ==
    IF k = 0 THEN x ELSE LayerForward(ls[k], Compose(ls, k - 1, x))

\* a forward pass over ls on x, as layer calls: layer k is fed the output of k-1
ForwardCalls(ls, x) ==
    [k \in 1..Len(ls) |-> Call("forward", k, Compose(ls, k - 1, x))]

Done(op) == pc = "idle" /\ result.op = op
InTrain == pc \in {"train", "forward", "loss", "backward", "optimize"}
Enumerated(sel) == sel = "BinaryCrossEntropy" \/ sel = "MeanSquaredError"

\* C1: a predict call that returns has called each layer's forward exactly
\* once, in insertion order, layer 1 on X and layer k on the output of layer
\* k-1, and returns the output of the last layer, Ln.forward(...L1.forward(X)).
C1_PredictIsComposition ==
    (Done("predict") /\ result.kind = "return") =>
        /\ Len(layers) >= 1
        /\ calls = ForwardCalls(hist.layers0, args.X)
        /\ hist.fwd = Len(layers)
        /\ result.val = Bound(Compose(hist.layers0, Len(layers), args.X))

C1_Witness ==
    /\ Done("predict")
    /\ result.kind = "return"
    /\ Len(layers) = 3
    /\ layers[1].type = "Linear" /\ layers[2].type = "ReLU"
    /\ result.val # Bound(args.X)

\* C2: a train call on a non-empty model with epochs >= 1 and a selector
\* outside the enumerated set never calls a layer's backward or optimize,
\* changes no layer parameter and leaves loss_history as it was, and it ends
\* by raising the unsupported-configuration error (ValueError).
C2_UnsupportedMutatesNothing ==
    /\ (InTrain \/ Done("train")) /\ ~Enumerated(args.loss_function) =>
        /\ hist.bwd = 0
        /\ hist.opt = 0
        /\ Params(layers) = Params(hist.layers0)
        /\ loss = hist.loss0
    /\ (Done("train") /\ ~Enumerated(args.loss_function)
            /\ args.epochs >= 1 /\ Len(layers) >= 1) =>
        result = Raised("train", "ValueError")

C2_Witness ==
    /\ result = Raised("train", "ValueError")
    /\ pc = "idle"
    /\ Len(layers) >= 2
    /\ \E k \in 1..Len(layers) : layers[k].type = "Linear"
    /\ Len(loss) >= 1

\* C3 as stated: when train raises the unsupported-configuration error, no
\* layer's forward, backward or optimize has been called by that train call.
C3_NoComputationBeforeError ==
    result = Raised("train", "ValueError") =>
        hist.fwd = 0 /\ hist.bwd = 0 /\ hist.opt = 0

\* C3 amended: when train raises the unsupported-configuration error, it does
\* so in epoch 0 after that epoch's forward pass: every layer's forward has
\* been called exactly once, in insertion order, and no layer's backward or
\* optimize has been called by that train call; no epoch has completed.
C3_ErrorAfterForwardPass ==
    result = Raised("train", "ValueError") =>
        /\ epoch = 0
        /\ hist.fwd = Len(layers)
        /\ calls = ForwardCalls(hist.layers0, args.X)
        /\ hist.bwd = 0
        /\ hist.opt = 0

C3_Witness ==
    /\ result = Raised("train", "ValueError")
    /\ Len(layers) = 3
    /\ hist.fwd = 3
    /\ args.epochs = 2

\* the scalar loss of an epoch started with layers ls
EpochError(ls, X, Y, sel) ==
    LossForward(LossUnit(sel, Compose(ls, Len(ls), X), Y))

\* C4: during a train call loss_history is only ever appended to, each time
\* with the loss of the current epoch's forward output (the layers as they
\* were when the epoch started) against Y, once per epoch; so when a call of
\* N epochs on a non-empty model with a supported selector returns, the
\* history has grown by exactly N entries and the earlier ones are unchanged.
C4_LossHistoryGrowth ==
    /\ []((Done("train") /\ result.kind = "return" /\ Len(layers) >= 1
             /\ Enumerated(args.loss_function)) =>
            /\ Len(loss) = Len(hist.loss0) + args.epochs
            /\ SubSeq(loss, 1, Len(hist.loss0)) = hist.loss0)
    /\ [](InTrain =>
            Len(loss) = Len(hist.loss0) + epoch
                          + (IF pc \in {"backward", "optimize"} THEN 1 ELSE 0))
    /\ [][loss' # loss =>
            loss' = Append(loss, EpochError(hist.epoch0, args.X, args.Y,
                                            args.loss_function))]_vars

C4_Witness ==
    /\ Done("train")
    /\ result.kind = "return"
    /\ args.epochs = 2
    /\ Len(hist.loss0) >= 1
    /\ Len(loss) = Len(hist.loss0) + 2
    /\ loss[Len(loss)] # loss[Len(loss) - 1]

\* C5: between calls, loss_history has exactly one entry per epoch that ran
\* to completion (an epoch interrupted in its backward pass contributes none).
C5_OneEntryPerCompletedEpoch ==
    pc = "idle" => Len(loss) = hist.completed

\* the backward calls of the log, in call order
BackwardCalls == SelectSeq(calls, LAMBDA c : c.op = "backward")

\* C6: within an epoch, backward is called on the layers in strict reverse
\* insertion order (the j-th backward call is on layer n-j+1); every optimize
\* call comes directly after the backward call of the same layer, which is a
\* Linear layer; and the backward call of a Linear layer is directly followed
\* by that layer's optimize, before any other layer's backward.  A completed
\* epoch has called backward on every layer.
C6_ReverseOrderFusedUpdate ==
    /\ \A j \in 1..Len(BackwardCalls) :
           BackwardCalls[j].layer = Len(layers) - j + 1
    /\ \A p \in 1..Len(calls) :
           calls[p].op = "optimize" =>
               /\ p > 1
               /\ calls[p - 1].op = "backward"
               /\ calls[p - 1].layer = calls[p].layer
               /\ layers[calls[p].layer].type = "Linear"
    /\ \A p \in 1..Len(calls) :
           (calls[p].op = "backward" /\ layers[calls[p].layer].type = "Linear") =>
               IF p < Len(calls)
               THEN calls[p + 1].op = "optimize" /\ calls[p + 1].layer = calls[p].layer
               ELSE pc = "optimize"
    /\ (pc = "train" /\ epoch >= 1) => Len(BackwardCalls) = Len(layers)

C6_Witness ==
    /\ pc = "train"
    /\ epoch >= 1
    /\ Len(layers) = 3
    /\ layers[1].type = "Linear" /\ layers[2].type = "ReLU" /\ layers[3].type = "Linear"
    /\ [p \in 1..Len(calls) |-> << calls[p].op, calls[p].layer >>] =
         << << "forward", 1 >>, << "forward", 2 >>, << "forward", 3 >>,
            << "backward", 3 >>, << "optimize", 3 >>, << "backward", 2 >>,
            << "backward", 1 >>, << "optimize", 1 >> >>

\* the reports due once epochs 0..m-1 have completed: one per epoch index
\* divisible by 50, in order, each with that epoch's entry of loss_history
ExpectedReports(verbose, m) ==
    IF ~verbose THEN << >>
    ELSE [j \in 1..((m + 49) \div 50) |->
            [epoch |-> 50 * (j - 1),
             loss |-> loss[Len(hist.loss0) + 50 * (j - 1) + 1]]]

\* C7: at every point of a train call the lines printed so far are exactly
\* the reports of the completed epochs whose index is divisible by 50, each
\* carrying that epoch's loss, and none with verbose=False; so a verbose run
\* of 150 epochs prints at epochs 0, 50 and 100 and at no others.
C7_ReportsEveryFiftieth ==
    /\ out = ExpectedReports(args.verbose, epoch)
    /\ (Done("train") /\ result.kind = "return" /\ args.verbose
            /\ args.epochs = 150) =>
          [j \in 1..Len(out) |-> out[j].epoch] = << 0, 50, 100 >>
    /\ (Done("train") /\ result.kind = "return") => epoch = args.epochs

C7_Witness ==
    /\ Done("train")
    /\ result.kind = "return"
    /\ args.verbose
    /\ args.epochs = LongEpochs
    /\ Len(out) >= 3
    /\ out[3].epoch = 100

\* C8: on a model with no layers, predict ends by raising and returns no
\* value, and train with epochs >= 1 and a supported selector ends by raising
\* with loss_history as it was before the call.
C8_EmptyModelFails ==
    /\ (Done("predict") /\ Len(layers) = 0) =>
          result.kind = "raise" /\ result.val = Unbound
    /\ (Done("train") /\ Len(layers) = 0 /\ args.epochs >= 1
            /\ Enumerated(args.loss_function)) =>
          result.kind = "raise" /\ loss = hist.loss0 /\ hist.completed = 0

C8_Witness ==
    /\ Len(layers) = 0
    /\ hist.predicts = 1
    /\ result = Raised("train", "UnboundLocalError")
    /\ args.epochs >= 1

\* C9: during and after a predict call, no layer's backward or optimize has
\* been called by it, and the layers' kinds and parameters and loss_history
\* are as they were when predict was called.
C9_PredictIsPure ==
    (pc = "predict" \/ Done("predict")) =>
        /\ hist.bwd = 0
        /\ hist.opt = 0
        /\ Params(layers) = Params(hist.layers0)
        /\ loss = hist.loss0

C9_Witness ==
    /\ Done("predict")
    /\ result.kind = "return"
    /\ hist.trains = 1
    /\ Len(loss) >= 2
    /\ Params(layers) # Params(hist.added)

(***************************************************************************)
(* One epoch as a function of (layer kinds and parameters, X, Y, learning  *)
(* rate, selector) alone: what the layers cached earlier, the loss         *)
(* history, the epoch index and earlier calls are not among its arguments. *)
(***************************************************************************)
\* layer k of ls once the epoch's forward pass has fed it
Fed(ls, k, X) == [ls[k] EXCEPT !.cache = Bound(Compose(ls, k - 1, X))]

\* the gradient handed to layer k's backward
RECURSIVE GradientInto(_, _, _, _, _)
GradientInto(ls, k, X, Y, sel) ==
    IF k = Len(ls)
    THEN LossBackward(LossUnit(sel, Compose(ls, Len(ls), X), Y))
    ELSE LayerBackward(Fed(ls, k + 1, X), GradientInto(ls, k + 1, X, Y, sel))[1]

\* the layers after the epoch
EpochLayers(ls, X, Y, lr, sel) ==
    [k \in 1..Len(ls) |->
        LET l == Fed(ls, k, X)
            r == LayerBackward(l, GradientInto(ls, k, X, Y, sel))
        IN  IF l.type = "Linear" THEN LayerOptimize(l, r[2], r[3], lr) ELSE l]

\* the backward pass from layer k down to layer 1, as layer calls
RECURSIVE BackwardPass(_, _, _, _, _, _)
BackwardPass(ls, k, X, Y, lr, sel) ==
    IF k = 0 THEN << >>
    ELSE LET g == GradientInto(ls, k, X, Y, sel)
             r == LayerBackward(Fed(ls, k, X), g)
         IN  << Call("backward", k, g) >>
             \o (IF ls[k].type = "Linear"
                 THEN << Call("optimize", k, << r[2], r[3], lr >>) >> ELSE << >>)
             \o BackwardPass(ls, k - 1, X, Y, lr, sel)

\* the layer calls of the epoch
EpochCalls(ls, X, Y, lr, sel) ==
    ForwardCalls(ls, X) \o BackwardPass(ls, Len(ls), X, Y, lr, sel)

\* C10: the outcome of a completed epoch is determined by the layers' kinds
\* and parameters at its start, X, Y, the learning rate and the selector:
\* the error it recorded, the sequence of layer calls (with their arguments)
\* and the resulting layers are the values of fixed functions of these, so
\* two epochs started alike end alike whatever else differs in the state.
C10_EpochIsDeterministic ==
    (pc = "train" /\ epoch >= 1) =>
        /\ loss[Len(loss)] =
             EpochError(hist.epoch0, args.X, args.Y, args.loss_function)
        /\ calls = EpochCalls(hist.epoch0, args.X, args.Y,
                              args.learning_rate, args.loss_function)
        /\ layers = EpochLayers(hist.epoch0, args.X, args.Y,
                                args.learning_rate, args.loss_function)

\* a second epoch, run on parameters the first one changed, in a second train
\* call on layers that an earlier call had fed another input
C10_Witness ==
    /\ pc = "train"
    /\ epoch = 2
    /\ hist.trains = 2
    /\ Len(layers) >= 2
    /\ Params(layers) # Params(hist.epoch0)
    /\ Params(hist.epoch0) # Params(hist.layers0)
    /\ hist.layers0[1].cache # Bound(args.X)

\* C11: every train call ends (layer and loss calls returning).  On a
\* non-empty model with a supported selector it returns after exactly N
\* completed epochs, the loop variable taking the values 0..N-1 one after the
\* other (with N = 0: no layer call, layers and loss_history untouched); with
\* an unsupported selector and N >= 1 it ends by raising in epoch 0, no epoch
\* of the call having completed.
C11_TrainTerminates ==
    /\ InTrain ~> pc = "idle"
    /\ [](InTrain => hist.completed = hist.completed0 + epoch)
    /\ [][(InTrain /\ epoch' # epoch) =>
            /\ epoch' = epoch + 1
            /\ epoch < args.epochs
            /\ hist'.completed = hist.completed + 1]_vars
    /\ []((Done("train") /\ Len(layers) >= 1 /\ Enumerated(args.loss_function)) =>
            /\ result = Returned("train", Unbound)
            /\ epoch = args.epochs
            /\ hist.completed = hist.completed0 + args.epochs
            /\ (args.epochs = 0 =>
                   /\ layers = hist.layers0
                   /\ loss = hist.loss0
                   /\ hist.fwd = 0 /\ hist.bwd = 0 /\ hist.opt = 0))
    /\ []((Done("train") /\ Len(layers) >= 1 /\ ~Enumerated(args.loss_function)
             /\ args.epochs >= 1) =>
            /\ result = Raised("train", "ValueError")
            /\ epoch = 0
            /\ hist.completed = hist.completed0)

C11_Witness ==
    /\ Done("train")
    /\ result.kind = "return"
    /\ args.epochs = 2
    /\ Len(layers) = 3
    /\ hist.predicts = 1
    /\ hist.completed = 2
    /\ Params(layers) # Params(hist.layers0)

\* C12: in every epoch the first backward call, on the last layer, receives
\* loss.backward() of the loss unit built from the epoch's forward output and
\* Y, and every later backward call, on layer i, receives the input-gradient
\* (first component) that the backward call just before it, on layer i+1,
\* returned; a weight or bias gradient is never what a layer receives.
C12_GradientThreading ==
    \A j \in 1..Len(BackwardCalls) :
        /\ BackwardCalls[j].layer = Len(layers) - j + 1
        /\ BackwardCalls[j].arg =
             IF j = 1
             THEN LossBackward(LossUnit(args.loss_function,
                                        Compose(hist.epoch0, Len(layers), args.X),
                                        args.Y))
             ELSE LayerBackward(Fed(hist.epoch0, Len(layers) - j + 2, args.X),
                                BackwardCalls[j - 1].arg)[1]

\* a completed epoch in which a Linear layer returned a weight gradient that
\* differs from the input-gradient it handed to the layer before it
C12_Witness ==
    /\ pc = "train"
    /\ epoch >= 1
    /\ Len(layers) = 3
    /\ Len(BackwardCalls) = 3
    /\ \E j \in 2..3 :
          LET l == Fed(hist.epoch0, Len(layers) - j + 2, args.X)
              r == LayerBackward(l, BackwardCalls[j - 1].arg)
          IN  /\ l.type = "Linear"
              /\ r[1] # r[2]
              /\ BackwardCalls[j].arg = r[1]

\* the optimize calls of the log made on layer k
OptimizeCallsOf(k) ==
    SelectSeq(calls, LAMBDA c : c.op = "optimize" /\ c.layer = k)

\* C13: every optimize call of an epoch is made on a Linear (parametric)
\* layer, directly after that layer's backward call, with the weight and bias
\* gradients that this backward call returned and the learning rate given to
\* train; no layer is optimized twice in an epoch, and a completed epoch has
\* optimized each Linear layer exactly once and no other layer.
C13_OptimizeIffParametric ==
    /\ \A p \in 1..Len(calls) :
          calls[p].op = "optimize" =>
              LET k == calls[p].layer
                  r == LayerBackward(Fed(hist.epoch0, k, args.X), calls[p - 1].arg)
              IN  /\ hist.epoch0[k].type = "Linear"
                  /\ calls[p - 1] = Call("backward", k, calls[p - 1].arg)
                  /\ calls[p].arg = << r[2], r[3], args.learning_rate >>
    /\ \A k \in 1..Len(layers) : Len(OptimizeCallsOf(k)) <= 1
    /\ (pc = "train" /\ epoch >= 1) =>
          \A k \in 1..Len(layers) :
              Len(OptimizeCallsOf(k)) = IF layers[k].type = "Linear" THEN 1 ELSE 0

C13_Witness ==
    /\ pc = "train"
    /\ epoch = 1
    /\ Len(layers) = 3
    /\ layers[1].type = "Linear" /\ layers[2].type = "ReLU" /\ layers[3].type = "Linear"
    /\ Len(OptimizeCallsOf(2)) = 0
    /\ Len(OptimizeCallsOf(1)) = 1
    /\ OptimizeCallsOf(1)[1].arg[1] # 0
    /\ OptimizeCallsOf(3)[1].arg[1] # 0

\* the calls of the log with operation op made on layer k
CallsOf(op, k) == SelectSeq(calls, LAMBDA c : c.op = op /\ c.layer = k)

\* the number of Linear layers
LinearCount == Cardinality({k \in 1..Len(layers) : layers[k].type = "Linear"})

\* the log starts with the forward calls of layers 1..m, in this order
ForwardPrefix(m) ==
    /\ Len(calls) >= m
    /\ \A k \in 1..m : calls[k].op = "forward" /\ calls[k].layer = k

\* C14: in every epoch the forward calls of layers 1..n, one each and in
\* insertion order, all come before the loss is evaluated; the loss is in
\* loss_history before the first backward call; no forward call follows a
\* backward call of the same epoch; a completed epoch has called forward and
\* backward exactly once on every layer, ending with layer 1's backward (and
\* optimize, if it is Linear); and while the forward pass of epoch e runs, all
\* backward and optimize calls of the epochs before e have been made.
C14_EpochPhases ==
    /\ pc = "forward" =>
          /\ ForwardPrefix(loc.i - 1) /\ Len(calls) = loc.i - 1
          /\ hist.fwd = epoch * Len(layers) + loc.i - 1
          /\ hist.bwd = epoch * Len(layers)
          /\ hist.opt = epoch * LinearCount
          /\ Len(loss) = Len(hist.loss0) + epoch
    /\ pc = "loss" =>
          /\ ForwardPrefix(Len(layers)) /\ Len(calls) = Len(layers)
          /\ hist.bwd = epoch * Len(layers)
          /\ Len(loss) = Len(hist.loss0) + epoch
    /\ pc \in {"backward", "optimize"} =>
          /\ ForwardPrefix(Len(layers))
          /\ \A p \in (Len(layers) + 1)..Len(calls) : calls[p].op # "forward"
          /\ hist.fwd = (epoch + 1) * Len(layers)
          /\ Len(loss) = Len(hist.loss0) + epoch + 1
          /\ loc.error = Bound(loss[Len(loss)])
    /\ (pc = "train" /\ epoch >= 1) =>
          /\ \A k \in 1..Len(layers) :
                Len(CallsOf("forward", k)) = 1 /\ Len(CallsOf("backward", k)) = 1
          /\ calls[Len(calls)].layer = 1
          /\ calls[Len(calls)].op =
                (IF layers[1].type = "Linear" THEN "optimize" ELSE "backward")
          /\ hist.fwd = epoch * Len(layers)
          /\ hist.bwd = epoch * Len(layers)
          /\ hist.opt = epoch * LinearCount

\* the forward pass of a second epoch under way on [Linear, ReLU, Linear]
C14_Witness ==
    /\ pc = "forward"
    /\ epoch = 1
    /\ loc.i = 3
    /\ Len(layers) = 3
    /\ layers[1].type = "Linear" /\ layers[2].type = "ReLU" /\ layers[3].type = "Linear"
    /\ hist.fwd = 5 /\ hist.bwd = 3 /\ hist.opt = 2

\* the layer calls of the log that returned: a call that raised is the last
\* entry of the log of a call that ended with the layer's error
ReturnedCalls ==
    IF pc = "idle" /\ result.kind = "raise" /\ result.exc = "LayerError"
    THEN SubSeq(calls, 1, Len(calls) - 1)
    ELSE calls

\* the layers whose optimize has run in the current (or last) epoch
Updated == {ReturnedCalls[p].layer :
               p \in {q \in 1..Len(ReturnedCalls) : ReturnedCalls[q].op = "optimize"}}

\* C15: at every point of an epoch, and when the epoch is interrupted by a
\* layer call that raises, the Linear layers already optimized in the epoch
\* are a suffix of the Linear layers in insertion order: every Linear layer
\* after an optimized one is optimized too.  The optimized layers carry the
\* parameters their optimize call produced, all other layers the parameters
\* they had when the epoch started.
C15_UpdatedLayersAreSuffix ==
    (InTrain \/ Done("train")) =>
        /\ \A k \in Updated :
              /\ layers[k].type = "Linear"
              /\ \A j \in (k + 1)..Len(layers) :
                    layers[j].type = "Linear" => j \in Updated
        /\ \A k \in 1..Len(layers) :
              IF k \in Updated
              THEN LET a == OptimizeCallsOf(k)[1].arg
                   IN  Params(layers)[k] =
                         Params(<< LayerOptimize(hist.epoch0[k], a[1], a[2], a[3]) >>)[1]
              ELSE Params(layers)[k] = Params(hist.epoch0)[k]

\* an epoch on [Linear, ReLU, Linear] interrupted by the first layer's
\* backward: the last layer is updated, the first is not
C15_Witness ==
    /\ pc = "idle"
    /\ result = Raised("train", "LayerError")
    /\ Len(layers) = 3
    /\ layers[1].type = "Linear" /\ layers[2].type = "ReLU" /\ layers[3].type = "Linear"
    /\ Updated = {3}
    /\ Params(layers)[3] # Params(hist.epoch0)[3]
    /\ calls[Len(calls)].op = "backward" /\ calls[Len(calls)].layer = 1

\* the identities and the kinds of a layer sequence, in order
Ids(ls) == [k \in 1..Len(ls) |-> ls[k].id]
Kinds(ls) == [k \in 1..Len(ls) |-> ls[k].type]

\* C16: layers always holds exactly the layer objects passed to add, in call
\* order and each once, whatever predict and train calls came in between;
\* the sequence of objects changes only by a step that keeps the layers
\* already there and puts one more after them; and an add call leaves
\* loss_history and the layers added before it as they were, the added layer
\* being the last.
C16_LayersAreTheAddedLayers ==
    /\ [](Ids(layers) = Ids(hist.added) /\ Kinds(layers) = Kinds(hist.added))
    /\ [](\A j, k \in 1..Len(layers) : layers[j].id = layers[k].id => j = k)
    /\ [][Ids(layers') # Ids(layers) =>
            /\ pc = "idle" /\ pc' = "idle" /\ result'.op = "add"
            /\ Len(layers') = Len(layers) + 1
            /\ SubSeq(layers', 1, Len(layers)) = layers]_vars
    /\ [](Done("add") =>
            /\ loss = hist.loss0
            /\ SubSeq(layers, 1, Len(layers) - 1) = hist.layers0
            /\ layers[Len(layers)] = hist.added[Len(hist.added)])

\* a third layer added after a train call that changed the first two and a
\* predict call
C16_Witness ==
    /\ Done("add")
    /\ Len(layers) = 3
    /\ hist.trains = 1
    /\ hist.predicts = 1
    /\ Len(loss) >= 1
    /\ Params(SubSeq(layers, 1, 2)) # Params(SubSeq(hist.added, 1, 2))

=============================================================================
